---------------------------- MODULE Spec2Model ----------------------------
(***************************************************************************)
(* A model of pyweb/ui/elements.py: the loading of the module (its class   *)
(* statements and its _add_js_properties calls, in file order) and the     *)
(* construction of element instances by ElementBase.__init__,              *)
(* TextElementBase.__init__ and grid.__init__.                             *)
(*                                                                         *)
(* A Python value is a record [type, repr, items]; a class is a record     *)
(* [base, dict] whose dict is the ordered sequence of the entries of its   *)
(* __dict__; an instance is the class it was built from, the arguments of  *)
(* the call and the sequence of calls its constructor made on the DOM.     *)
(***************************************************************************)
EXTENDS Integers, Sequences, FiniteSets, TLC

VARIABLES
    pc,         \* the next top-level statement of the module, then of the user's script
    classes,    \* the classes bound so far: name |-> [base, dict]
    init_doc,   \* __doc__ of each __init__ function, by the class that defines it
    inst        \* the instance constructed: its class, keywords and DOM calls

vars == <<pc, classes, init_doc, inst>>

(* ------------------------------ Python values --------------------------- *)

PyNone == [type |-> "NoneType", repr |-> "None", items |-> <<>>]

PyStr(s) == [type |-> "str", repr |-> s, items |-> <<>>]

PyInt(s) == [type |-> "int", repr |-> s, items |-> <<>>]

PyElement(e) == [type |-> "Element", repr |-> e, items |-> <<>>]

PyList(l) == [type |-> "list", repr |-> "", items |-> l]

PyDict(l) == [type |-> "dict", repr |-> "", items |-> l]

\* Python's truth value of v: None, 0, "" and empty containers are false.
Truthy(v) ==
    CASE v.type = "NoneType" -> FALSE
      [] v.type = "int" -> v.repr # "0"
      [] v.type = "str" -> v.repr # ""
      [] v.type \in {"list", "dict"} -> Len(v.items) > 0
      [] OTHER -> TRUE

(* ------------------------------ module data ----------------------------- *)

GLOBAL_ATTRIBUTES ==
    << "accesskey", "autocapitalize", "autofocus", "draggable", "enterkeyhint",
       "hidden", "id", "lang", "nonce", "part", "popover", "slot", "spellcheck",
       "tabindex", "title", "translate", "virtualkeyboardpolicy", "className" >>

CUSTOM_ATTRIBUTES ==
    [ a |-> << "download", "href", "referrerpolicy", "rel", "target", "type" >>,
      td |-> << "colspan", "headers", "rowspan" >>,
      template |-> << "shadowrootmode" >>,
      textarea |-> << "autocapitalize", "autocomplete", "autofocus", "cols", "dirname",
                      "disabled", "form", "maxlength", "minlength", "name",
                      "placeholder", "readonly", "required", "rows", "spellcheck",
                      "wrap" >>,
      tr |-> << "abbr", "colspan", "headers", "rowspan", "scope" >>,
      time |-> << "datetime" >>,
      video |-> << "autoplay", "controls", "crossorigin", "disablepictureinpicture",
                   "disableremoteplayback", "height", "loop", "muted", "playsinline",
                   "poster", "preload", "src", "width" >> ]

\* An entry of a class __dict__: a plain string attribute, a function, or a
\* JSProperty (val is then the name of the property of the native node).
StrAttr(name, value) == [name |-> name, kind |-> "str", val |-> value]

FuncAttr(name) == [name |-> name, kind |-> "function", val |-> ""]

PropAttr(name, js) == [name |-> name, kind |-> "JSProperty", val |-> js]

\* js_property(attr): a JSProperty forwarding to the node's property attr.
js_property(attr) == PropAttr(attr, attr)

\* The two kinds of top-level statement of the module.
ClassDef(name, base, body) ==
    [kind |-> "class", name |-> name, base |-> base, body |-> body, attrs |-> <<>>]

AddCall(name, attrs) ==
    [kind |-> "call", name |-> name, base |-> "", body |-> <<>>, attrs |-> attrs]

\* The statements of elements.py, in file order.
Module ==
  <<
    ClassDef("ElementBase", "pydom.Element", <<StrAttr("tag", "div"), FuncAttr("__init__"),
            FuncAttr("_init_properties")>>),
    ClassDef("TextElementBase", "ElementBase", <<FuncAttr("__init__")>>),
    ClassDef("a", "TextElementBase", <<StrAttr("tag", "a")>>),
    ClassDef("abbr", "ElementBase", <<StrAttr("tag", "abbr")>>),
    AddCall("abbr", <<>>),
    ClassDef("address", "ElementBase", <<StrAttr("tag", "address")>>),
    AddCall("address", <<>>),
    ClassDef("area", "ElementBase", <<StrAttr("tag", "area")>>),
    AddCall("area", <<"alt", "coords", "download", "href", "ping", "referrerpolicy", "rel",
            "shape", "target">>),
    ClassDef("article", "ElementBase", <<StrAttr("tag", "article")>>),
    AddCall("article", <<>>),
    ClassDef("aside", "ElementBase", <<StrAttr("tag", "aside")>>),
    AddCall("aside", <<>>),
    ClassDef("audio", "ElementBase", <<StrAttr("tag", "audio")>>),
    AddCall("audio", <<"autoplay", "controls", "controlslist", "crossorigin",
            "disableremoteplayback", "loop", "muted", "preload", "src">>),
    ClassDef("b", "ElementBase", <<StrAttr("tag", "b")>>),
    AddCall("b", <<>>),
    ClassDef("blockquote", "ElementBase", <<StrAttr("tag", "blockquote")>>),
    AddCall("blockquote", <<"cite">>),
    ClassDef("br", "ElementBase", <<StrAttr("tag", "br")>>),
    AddCall("br", <<>>),
    ClassDef("button", "TextElementBase", <<StrAttr("tag", "button")>>),
    AddCall("button", <<"autofocus", "disabled", "form", "formaction", "formenctype",
            "formmethod", "formnovalidate", "formtarget", "name", "type", "value">>),
    ClassDef("canvas", "ElementBase", <<StrAttr("tag", "canvas")>>),
    AddCall("canvas", <<"height", "width">>),
    ClassDef("caption", "ElementBase", <<StrAttr("tag", "caption")>>),
    AddCall("caption", <<>>),
    ClassDef("cite", "TextElementBase", <<StrAttr("tag", "cite")>>),
    AddCall("cite", <<>>),
    ClassDef("code", "TextElementBase", <<StrAttr("tag", "code")>>),
    AddCall("code", <<>>),
    ClassDef("data", "TextElementBase", <<StrAttr("tag", "data")>>),
    AddCall("data", <<"value">>),
    ClassDef("datalist", "TextElementBase", <<StrAttr("tag", "datalist")>>),
    AddCall("datalist", <<>>),
    ClassDef("dd", "TextElementBase", <<StrAttr("tag", "dd")>>),
    AddCall("dd", <<>>),
    ClassDef("del_", "TextElementBase", <<StrAttr("tag", "del")>>),
    AddCall("del_", <<"cite", "datetime">>),
    ClassDef("details", "TextElementBase", <<StrAttr("tag", "details")>>),
    AddCall("details", <<"open">>),
    ClassDef("dialog", "TextElementBase", <<StrAttr("tag", "dialog")>>),
    AddCall("dialog", <<"open">>),
    ClassDef("div", "TextElementBase", <<StrAttr("tag", "div")>>),
    AddCall("div", <<>>),
    ClassDef("dl", "TextElementBase", <<StrAttr("tag", "dl")>>),
    AddCall("dl", <<"value">>),
    ClassDef("dt", "TextElementBase", <<StrAttr("tag", "dt")>>),
    AddCall("dt", <<>>),
    ClassDef("em", "TextElementBase", <<StrAttr("tag", "em")>>),
    AddCall("em", <<>>),
    ClassDef("embed", "TextElementBase", <<StrAttr("tag", "embed")>>),
    AddCall("embed", <<"height", "src", "type", "width">>),
    ClassDef("fieldset", "TextElementBase", <<StrAttr("tag", "fieldset")>>),
    AddCall("fieldset", <<"disabled", "form", "name">>),
    ClassDef("figcation", "TextElementBase", <<StrAttr("tag", "figcation")>>),
    AddCall("figcation", <<>>),
    ClassDef("figure", "TextElementBase", <<StrAttr("tag", "figure")>>),
    AddCall("figure", <<>>),
    ClassDef("footer", "TextElementBase", <<StrAttr("tag", "footer")>>),
    AddCall("footer", <<>>),
    ClassDef("form", "TextElementBase", <<StrAttr("tag", "form")>>),
    AddCall("form", <<"accept-charset", "action", "autocapitalize", "autocomplete", "enctype",
            "name", "method", "nonvalidate", "rel", "target">>),
    ClassDef("h1", "TextElementBase", <<StrAttr("tag", "h1")>>),
    AddCall("h1", <<>>),
    ClassDef("h2", "TextElementBase", <<StrAttr("tag", "h2")>>),
    AddCall("h2", <<>>),
    ClassDef("h3", "TextElementBase", <<StrAttr("tag", "h3")>>),
    AddCall("h3", <<>>),
    ClassDef("h4", "TextElementBase", <<StrAttr("tag", "h4")>>),
    AddCall("h4", <<>>),
    ClassDef("h5", "TextElementBase", <<StrAttr("tag", "h5")>>),
    AddCall("h5", <<>>),
    ClassDef("h6", "TextElementBase", <<StrAttr("tag", "h6")>>),
    AddCall("h6", <<>>),
    ClassDef("header", "TextElementBase", <<StrAttr("tag", "header")>>),
    AddCall("header", <<>>),
    ClassDef("hgroup", "TextElementBase", <<StrAttr("tag", "hgroup")>>),
    AddCall("hgroup", <<>>),
    ClassDef("hr", "TextElementBase", <<StrAttr("tag", "hr")>>),
    AddCall("hr", <<>>),
    ClassDef("i", "TextElementBase", <<StrAttr("tag", "i")>>),
    AddCall("i", <<>>),
    ClassDef("iframe", "TextElementBase", <<StrAttr("tag", "iframe")>>),
    AddCall("iframe", <<"allow", "allowfullscreen", "height", "loading", "name",
            "referrerpolicy", "sandbox", "src", "srcdoc", "width">>),
    ClassDef("img", "ElementBase", <<StrAttr("tag", "img")>>),
    AddCall("img", <<"alt", "crossorigin", "decoding", "fetchpriority", "height", "ismap",
            "loading", "referrerpolicy", "sizes", "src", "width">>),
    ClassDef("input_", "ElementBase", <<StrAttr("tag", "input")>>),
    AddCall("input_", <<"accept", "alt", "autofocus", "capture", "checked", "dirname",
            "disabled", "form", "formaction", "formenctype", "formmethod", "formnovalidate",
            "formtarget", "height", "list", "max", "maxlength", "min", "minlength", "multiple",
            "name", "pattern", "placeholder", "popovertarget", "popovertargetaction",
            "readonly", "required", "size", "src", "step", "type", "value", "width">>),
    ClassDef("ins", "TextElementBase", <<StrAttr("tag", "ins")>>),
    AddCall("ins", <<"cite", "datetime">>),
    ClassDef("kbd", "TextElementBase", <<StrAttr("tag", "kbd")>>),
    AddCall("kbd", <<>>),
    ClassDef("label", "TextElementBase", <<StrAttr("tag", "label")>>),
    AddCall("label", <<"for">>),
    ClassDef("legend", "TextElementBase", <<StrAttr("tag", "legend")>>),
    AddCall("legend", <<>>),
    ClassDef("li", "TextElementBase", <<StrAttr("tag", "li")>>),
    AddCall("li", <<"value">>),
    ClassDef("link", "TextElementBase", <<StrAttr("tag", "link")>>),
    AddCall("link", <<"as", "crossorigin", "disabled", "fetchpriority", "href", "imagesizes",
            "imagesrcset", "integrity", "media", "rel", "referrerpolicy", "sizes", "title",
            "type">>),
    ClassDef("main", "TextElementBase", <<StrAttr("tag", "main")>>),
    AddCall("main", <<>>),
    ClassDef("map_", "TextElementBase", <<StrAttr("tag", "map")>>),
    AddCall("map_", <<"name">>),
    ClassDef("mark", "TextElementBase", <<StrAttr("tag", "mark")>>),
    AddCall("mark", <<>>),
    ClassDef("menu", "TextElementBase", <<StrAttr("tag", "menu")>>),
    AddCall("menu", <<>>),
    ClassDef("map_", "TextElementBase", <<StrAttr("tag", "map")>>),
    AddCall("map_", <<"name">>),
    ClassDef("meter", "TextElementBase", <<StrAttr("tag", "meter")>>),
    AddCall("meter", <<"form", "high", "low", "max", "min", "optimum", "value">>),
    ClassDef("nav", "TextElementBase", <<StrAttr("tag", "nav")>>),
    AddCall("nav", <<>>),
    ClassDef("object_", "TextElementBase", <<StrAttr("tag", "object")>>),
    AddCall("object_", <<"data", "form", "height", "name", "type", "usemap", "width">>),
    ClassDef("ol", "TextElementBase", <<StrAttr("tag", "ol")>>),
    AddCall("ol", <<"reversed", "start", "type">>),
    ClassDef("optgroup", "TextElementBase", <<StrAttr("tag", "optgroup")>>),
    AddCall("optgroup", <<"disabled", "label">>),
    ClassDef("option", "TextElementBase", <<StrAttr("tag", "option")>>),
    AddCall("option", <<"disabled", "label", "selected", "value">>),
    ClassDef("output", "TextElementBase", <<StrAttr("tag", "output")>>),
    AddCall("output", <<"for", "form", "name">>),
    ClassDef("p", "TextElementBase", <<StrAttr("tag", "p")>>),
    AddCall("p", <<>>),
    ClassDef("picture", "TextElementBase", <<StrAttr("tag", "picture")>>),
    AddCall("picture", <<>>),
    ClassDef("pre", "TextElementBase", <<StrAttr("tag", "pre")>>),
    AddCall("pre", <<>>),
    ClassDef("progress", "TextElementBase", <<StrAttr("tag", "progress")>>),
    AddCall("progress", <<"max", "value">>),
    ClassDef("q", "TextElementBase", <<StrAttr("tag", "q")>>),
    AddCall("q", <<"cite">>),
    ClassDef("nav", "TextElementBase", <<StrAttr("tag", "nav")>>),
    AddCall("nav", <<>>),
    ClassDef("s", "TextElementBase", <<StrAttr("tag", "s")>>),
    AddCall("s", <<>>),
    ClassDef("script", "TextElementBase", <<StrAttr("tag", "script"), PropAttr("async_",
            "async")>>),
    AddCall("script", <<"blocking", "crossorigin", "defer", "fetchpriority", "integrity",
            "nomodule", "nonce", "referrerpolicy", "src", "type">>),
    ClassDef("section", "TextElementBase", <<StrAttr("tag", "section")>>),
    AddCall("section", <<>>),
    ClassDef("select", "TextElementBase", <<StrAttr("tag", "select")>>),
    AddCall("select", <<>>),
    ClassDef("small", "TextElementBase", <<StrAttr("tag", "small")>>),
    AddCall("small", <<>>),
    ClassDef("source", "TextElementBase", <<StrAttr("tag", "source")>>),
    AddCall("source", <<"type", "src", "srcset", "sizes", "media">>),
    ClassDef("span", "TextElementBase", <<StrAttr("tag", "span")>>),
    ClassDef("strong", "TextElementBase", <<StrAttr("tag", "strong")>>),
    AddCall("strong", <<>>),
    ClassDef("style", "TextElementBase", <<StrAttr("tag", "style")>>),
    AddCall("style", <<"blocking", "media", "nonce", "title">>),
    ClassDef("sub", "TextElementBase", <<StrAttr("tag", "sub")>>),
    ClassDef("summary", "TextElementBase", <<StrAttr("tag", "summary")>>),
    ClassDef("sup", "TextElementBase", <<StrAttr("tag", "sup")>>),
    ClassDef("table", "TextElementBase", <<StrAttr("tag", "table")>>),
    ClassDef("tbody", "TextElementBase", <<StrAttr("tag", "tbody")>>),
    ClassDef("td", "TextElementBase", <<StrAttr("tag", "td")>>),
    ClassDef("template", "TextElementBase", <<StrAttr("tag", "template")>>),
    ClassDef("textarea", "TextElementBase", <<StrAttr("tag", "textarea")>>),
    ClassDef("tfoot", "TextElementBase", <<StrAttr("tag", "tfoot")>>),
    ClassDef("th", "TextElementBase", <<StrAttr("tag", "th")>>),
    ClassDef("thead", "TextElementBase", <<StrAttr("tag", "thead")>>),
    ClassDef("time", "TextElementBase", <<StrAttr("tag", "time")>>),
    ClassDef("title", "TextElementBase", <<StrAttr("tag", "title")>>),
    ClassDef("tr", "TextElementBase", <<StrAttr("tag", "tr")>>),
    ClassDef("track", "TextElementBase", <<StrAttr("tag", "track")>>),
    ClassDef("u", "TextElementBase", <<StrAttr("tag", "u")>>),
    ClassDef("ul", "TextElementBase", <<StrAttr("tag", "ul")>>),
    ClassDef("var", "TextElementBase", <<StrAttr("tag", "var")>>),
    ClassDef("video", "TextElementBase", <<StrAttr("tag", "video")>>),
    ClassDef("grid", "TextElementBase", <<StrAttr("tag", "div"), FuncAttr("__init__")>>)
  >>

(* ------------------------------ class objects --------------------------- *)

Range(s) == {s[i] : i \in 1..Len(s)}

HasKey(d, name) == \E i \in 1..Len(d) : d[i].name = name

DictGet(d, name) == d[CHOOSE i \in 1..Len(d) : d[i].name = name]

\* d[e.name] = e on an ordered dict: an existing key keeps its position.
DictSet(d, e) ==
    IF HasKey(d, e.name)
    THEN [i \in 1..Len(d) |-> IF d[i].name = e.name THEN e ELSE d[i]]
    ELSE Append(d, e)

\* for attr in names: setattr(cls, attr, js_property(attr))
\* (the dict after the loop: a key it already had is rebound in place, a new
\* key is added at the end, at its first occurrence in names)
SetAll(d, names) ==
    LET First(i) == /\ ~HasKey(d, names[i])
                    /\ \A j \in 1..(i - 1) : names[j] # names[i]
        fresh == SelectSeq([i \in 1..Len(names) |-> i], First)
    IN  [i \in 1..Len(d) |->
            IF d[i].name \in Range(names) THEN js_property(d[i].name) ELSE d[i]]
        \o [k \in 1..Len(fresh) |-> js_property(names[fresh[k]])]

RECURSIVE Owner(_, _, _)
\* The first class on the MRO of c (single inheritance) that defines name in
\* its own __dict__; "pydom.Element" when none of this module's classes does.
Owner(cls, c, name) ==
    IF c \notin DOMAIN cls THEN "pydom.Element"
    ELSE IF HasKey(cls[c].dict, name) THEN c
    ELSE Owner(cls, cls[c].base, name)

\* Attribute lookup on the class c: the entry found along the MRO.
Lookup(cls, c, name) == DictGet(cls[Owner(cls, c, name)].dict, name)

NoDoc == [tag |-> "", attrs |-> << >>]

(* ------------------------------ module loading -------------------------- *)

\* class name(base): body
ExecClassDef(s) ==
    /\ classes' = (s.name :> [base |-> s.base, dict |-> s.body]) @@ classes
    /\ init_doc' = IF HasKey(s.body, "__init__")
                   THEN (s.name :> NoDoc) @@ init_doc
                   ELSE init_doc

\* _add_js_properties(cls, *attrs)
_add_js_properties(s) ==
    LET c == s.name
        d == SetAll(classes[c].dict, GLOBAL_ATTRIBUTES \o s.attrs)
        cls2 == [classes EXCEPT ![c].dict = d]
        f == Owner(cls2, c, "__init__")
    IN  /\ classes' = cls2
        /\ init_doc' = [init_doc EXCEPT
                          ![f] = [tag |-> Lookup(cls2, c, "tag").val, attrs |-> s.attrs]]

LoadClass ==
    /\ pc <= Len(Module)
    /\ Module[pc].kind = "class"
    /\ ExecClassDef(Module[pc])
    /\ pc' = pc + 1
    /\ UNCHANGED inst

LoadAddProperties ==
    /\ pc <= Len(Module)
    /\ Module[pc].kind = "call"
    /\ _add_js_properties(Module[pc])
    /\ pc' = pc + 1
    /\ UNCHANGED inst

(* ------------------------------ the native node ------------------------- *)

EmptyMap == [x \in {} |-> PyNone]

\* A call made on the DOM by the function `by`: document.createElement(key),
\* self.style[key] = val, setattr on the JSProperty of node property key,
\* self.append(val), self.html = val.
Call(op, by, key, val) == [op |-> op, by |-> by, key |-> key, val |-> val]

NoNode ==
    [tag |-> "", created |-> 0, props |-> EmptyMap, style |-> EmptyMap,
     children |-> << >>, html |-> << >>]

\* The node wrapped after one more call: createElement hands a fresh node to
\* pydom.Element.__init__; the other calls get or set a named property of it.
ApplyCall(n, c) ==
    CASE c.op = "createElement" ->
            [NoNode EXCEPT !.tag = c.key, !.created = n.created + 1]
      [] c.op = "style" -> [n EXCEPT !.style = (c.key :> c.val) @@ n.style]
      [] c.op = "setattr" -> [n EXCEPT !.props = (c.key :> c.val) @@ n.props]
      [] c.op = "append" -> [n EXCEPT !.children = Append(n.children, c.val.repr)]
      [] c.op = "html" -> [n EXCEPT !.html = << c.val >>, !.children = << >>]

RECURSIVE ApplyAll(_, _)
ApplyAll(n, cs) ==
    IF cs = << >> THEN n ELSE ApplyAll(ApplyCall(n, Head(cs)), Tail(cs))

(* ------------------------------ construction ---------------------------- *)

\* Binding of keyword arguments: a named parameter takes its keyword or its
\* default, and **kwargs collects the keywords that name no parameter.
Bind(kw, name, default) == IF name \in DOMAIN kw THEN kw[name] ELSE default

Rest(kw, params) == [k \in DOMAIN kw \ params |-> kw[k]]

\* ElementBase._init_properties(self, **kwargs), self an instance of c
_init_properties(cls, c, kwargs) ==
    LET Provided(e) == e.kind = "JSProperty" /\ e.name \in DOMAIN kwargs
        sel == SelectSeq(cls[c].dict, Provided)
    IN  [i \in 1..Len(sel) |->
            Call("setattr", "_init_properties",
                 Lookup(cls, c, sel[i].name).val, kwargs[sel[i].name])]

\* for key, value in style.items(): self.style[key] = value
StyleCalls(style, by) ==
    [i \in 1..Len(style.items) |->
        Call("style", by, style.items[i][1], style.items[i][2])]

\* ElementBase.__init__ with a slip: the element is created from ElementBase.tag
\* and not from self.tag.
ElementBase__init__BaseTag(cls, c, kw) ==
    LET style == Bind(kw, "style", PyNone)
        kwargs == Rest(kw, {"style"})
        by == "ElementBase.__init__"
    IN  << Call("createElement", by, Lookup(cls, "ElementBase", "tag").val, PyNone) >>
        \o (IF Truthy(style) THEN StyleCalls(style, by) ELSE << >>)
        \o _init_properties(cls, c, kwargs)

\* ElementBase.__init__(self, style=None, **kwargs)
ElementBase__init__(cls, c, kw) ==
    LET style == Bind(kw, "style", PyNone)
        kwargs == Rest(kw, {"style"})
        by == "ElementBase.__init__"
    IN  << Call("createElement", by, Lookup(cls, c, "tag").val, PyNone) >>
        \o (IF Truthy(style) THEN StyleCalls(style, by) ELSE << >>)
        \o _init_properties(cls, c, kwargs)

\* The content dispatch with a slip: `elif not content` for `elif content is None`.
ContentCallsFalsy(content) ==
    LET by == "TextElementBase.__init__"
    IN  CASE content.type = "Element" -> << Call("append", by, "", content) >>
          [] content.type = "list" ->
                [i \in 1..Len(content.items) |->
                    Call("append", by, "", PyElement(content.items[i]))]
          [] ~Truthy(content) -> << >>
          [] OTHER -> << Call("html", by, "", content) >>

\* The content dispatch of TextElementBase.__init__
ContentCalls(content) ==
    LET by == "TextElementBase.__init__"
    IN  CASE content.type = "Element" -> << Call("append", by, "", content) >>
          [] content.type = "list" ->
                [i \in 1..Len(content.items) |->
                    Call("append", by, "", PyElement(content.items[i]))]
          [] content.type = "NoneType" -> << >>
          [] OTHER -> << Call("html", by, "", content) >>

\* TextElementBase.__init__ with a slip: super().__init__(**kwargs), the style
\* not handed on.
TextElementBase__init__NoStyle(cls, c, kw) ==
    LET content == Bind(kw, "content", PyNone)
        kwargs == Rest(kw, {"content", "style"})
    IN  ElementBase__init__(cls, c, kwargs) \o ContentCalls(content)

\* TextElementBase.__init__(self, content=None, style=None, **kwargs)
TextElementBase__init__(cls, c, kw) ==
    LET content == Bind(kw, "content", PyNone)
        style == Bind(kw, "style", PyNone)
        kwargs == Rest(kw, {"content", "style"})
    IN  ElementBase__init__(cls, c, ("style" :> style) @@ kwargs)
        \o ContentCalls(content)

\* grid.__init__ with a slip: `if gap:` for `if not gap is None:`.
grid__init__TruthyGap(cls, c, kw) ==
    LET layout == kw["layout"]
        content == Bind(kw, "content", PyNone)
        gap == Bind(kw, "gap", PyNone)
        kwargs == Rest(kw, {"layout", "content", "gap"})
        by == "grid.__init__"
    IN  TextElementBase__init__(cls, c, ("content" :> content) @@ kwargs)
        \o << Call("style", by, "display", PyStr("grid")),
              Call("style", by, "grid-template-columns", layout) >>
        \o (IF Truthy(gap) THEN << Call("style", by, "gap", gap) >> ELSE << >>)

\* grid.__init__(self, layout, content=None, gap=None, **kwargs)
grid__init__(cls, c, kw) ==
    LET layout == kw["layout"]
        content == Bind(kw, "content", PyNone)
        gap == Bind(kw, "gap", PyNone)
        kwargs == Rest(kw, {"layout", "content", "gap"})
        by == "grid.__init__"
    IN  TextElementBase__init__(cls, c, ("content" :> content) @@ kwargs)
        \o << Call("style", by, "display", PyStr("grid")),
              Call("style", by, "grid-template-columns", layout) >>
        \o (IF gap.type # "NoneType" THEN << Call("style", by, "gap", gap) >>
            ELSE << >>)

\* c(**kw): the __init__ found on the MRO of c runs on the new instance.
New(cls, c, kw) ==
    LET f == Owner(cls, c, "__init__")
    IN  CASE f = "grid" -> grid__init__(cls, c, kw)
          [] f = "TextElementBase" -> TextElementBase__init__(cls, c, kw)
          [] OTHER -> ElementBase__init__(cls, c, kw)

\* The node an instance wraps, after the calls of its constructor.
Node(i) == ApplyAll(NoNode, i.calls)

(* ------------------------------ inputs ---------------------------------- *)

MaxContentLen == 2

Elements == {"e1", "e2"}

\* The user's script, run after the module is imported: subclasses of the
\* module's classes that add nothing of their own.
UserScript ==
    << ClassDef("MyElement", "div", << >>),
       ClassDef("MyScript", "script", << >>),
       ClassDef("MyGrid", "grid", << >>) >>

Contents ==
    {PyStr(""), PyStr("hello"), PyInt("0")}
    \cup {PyElement(e) : e \in Elements}
    \cup {PyList(l) : l \in UNION {[1..n -> Elements] : n \in 0..MaxContentLen}}

Styles ==
    { PyDict(<< >>),
      PyDict(<< <<"color", PyStr("red")>> >>),
      PyDict(<< <<"display", PyStr("block")>>, <<"grid-template-columns", PyStr("1fr")>>,
                <<"gap", PyStr("1px")>>, <<"color", PyStr("red")>> >>) }

Layouts == {PyStr("1fr 2fr")}

Gaps == {PyInt("0"), PyStr(""), PyStr("4px")}

RECURSIVE PropNames(_, _)
\* The names of the JSProperty entries found along the MRO of c.
PropNames(cls, c) ==
    IF c \notin DOMAIN cls THEN {}
    ELSE {e.name : e \in {x \in Range(cls[c].dict) : x.kind = "JSProperty"}}
         \cup PropNames(cls, cls[c].base)

\* The keyword names tried on class c: the global attributes, the tag's entry
\* in CUSTOM_ATTRIBUTES, the class's properties, a non-property attribute of
\* the class and a name the class does not know.
KwNames(cls, c) ==
    LET t == Lookup(cls, c, "tag").val
    IN  Range(GLOBAL_ATTRIBUTES)
        \cup (IF t \in DOMAIN CUSTOM_ATTRIBUTES THEN Range(CUSTOM_ATTRIBUTES[t]) ELSE {})
        \cup PropNames(cls, c)
        \cup {"tag", "bogus"}

\* Optional keyword name |-> v for each v of a pool (and the keyword left out).
Opt(name, pool) == {EmptyMap} \cup {name :> v : v \in pool}

\* The keyword arguments tried on class c: every keyword name of c alone, and
\* every combination of style, content (and layout and gap, which grid.__init__
\* takes) with no other keyword, with a property or with an unknown name.
Keywords(cls, c) ==
    LET algo == Owner(cls, c, "__init__")
        lay == IF algo = "grid" THEN Opt("layout", Layouts) \ {EmptyMap} ELSE {EmptyMap}
        gaps == IF algo = "grid" THEN Opt("gap", Gaps) ELSE {EmptyMap}
    IN  {kp @@ l : kp \in UNION {Opt(n, {PyStr("x")}) : n \in KwNames(cls, c)},
                   l \in lay}
        \cup {kp @@ ks @@ kc @@ l @@ g :
                 kp \in UNION {Opt(n, {PyStr("x")}) : n \in {"id", "bogus"}},
                 ks \in Opt("style", Styles), kc \in Opt("content", Contents),
                 l \in lay, g \in gaps}

(* ------------------------------ user code ------------------------------- *)

Loaded == pc > Len(Module)

Ready == pc > Len(Module) + Len(UserScript)

\* The next class statement of the user's script.
DefineSubclass ==
    /\ Loaded /\ ~Ready
    /\ ExecClassDef(UserScript[pc - Len(Module)])
    /\ pc' = pc + 1
    /\ UNCHANGED inst

NoInst == [cls |-> "", kw |-> EmptyMap, calls |-> << >>]

\* inst = c(**kw). The model follows the construction of one instance:
\* constructors read the classes and write only the node they create.
Construct ==
    /\ Ready
    /\ inst = NoInst
    /\ \E c \in DOMAIN classes :
         \E kw \in Keywords(classes, c) :
            inst' = [cls |-> c, kw |-> kw, calls |-> New(classes, c, kw)]
    /\ UNCHANGED <<pc, classes, init_doc>>

Init ==
    /\ pc = 1
    /\ classes = [x \in {} |-> [base |-> "", dict |-> << >>]]
    /\ init_doc = [x \in {} |-> NoDoc]
    /\ inst = NoInst

Next == LoadClass \/ LoadAddProperties \/ DefineSubclass \/ Construct

Spec == Init /\ [][Next]_vars

(* ------------------------------ vocabulary of the claims ---------------- *)

Built == inst # NoInst

\* The class whose __init__ built the instance.
Algo == Owner(classes, inst.cls, "__init__")

TagOf(c) == Lookup(classes, c, "tag").val

ModuleClasses == {Module[i].name : i \in {j \in 1..Len(Module) : Module[j].kind = "class"}}

\* The per-tag classes of the module: all its classes but the two bases.
TagClasses == (ModuleClasses \cap DOMAIN classes) \ {"ElementBase", "TextElementBase"}

\* The calls of the constructor with the given operation, in order.
CallsOf(op) == LET Is(c) == c.op = op IN SelectSeq(inst.calls, Is)

\* The positions in inst.calls of the calls with the operation made by a function.
Positions(op, by) == {i \in 1..Len(inst.calls) : inst.calls[i].op = op /\ inst.calls[i].by = by}

StyleArg == Bind(inst.kw, "style", PyNone)

ContentArg == Bind(inst.kw, "content", PyNone)

GapArg == Bind(inst.kw, "gap", PyNone)

StyleKeys == {StyleArg.items[i][1] : i \in 1..Len(StyleArg.items)}

StyleValue(k) == StyleArg.items[CHOOSE i \in 1..Len(StyleArg.items) : StyleArg.items[i][1] = k][2]

\* The node holds value v under key k of the map m (its style or its properties).
Holds(m, k, v) == k \in DOMAIN m /\ m[k] = v

\* The elements of HTML (the HTML Living Standard's index of elements).
HTMLElements ==
    { "a", "abbr", "address", "area", "article", "aside", "audio", "b", "base", "bdi",
      "bdo", "blockquote", "body", "br", "button", "canvas", "caption", "cite", "code",
      "col", "colgroup", "data", "datalist", "dd", "del", "details", "dfn", "dialog",
      "div", "dl", "dt", "em", "embed", "fieldset", "figcaption", "figure", "footer",
      "form", "h1", "h2", "h3", "h4", "h5", "h6", "head", "header", "hgroup", "hr",
      "html", "i", "iframe", "img", "input", "ins", "kbd", "label", "legend", "li",
      "link", "main", "map", "mark", "menu", "meta", "meter", "nav", "noscript",
      "object", "ol", "optgroup", "option", "output", "p", "picture", "pre", "progress",
      "q", "rp", "rt", "ruby", "s", "samp", "script", "search", "section", "select",
      "slot", "small", "source", "span", "strong", "style", "sub", "summary", "sup",
      "table", "tbody", "td", "template", "textarea", "tfoot", "th", "thead", "time",
      "title", "tr", "track", "u", "ul", "var", "video", "wbr" }

\* The tag a class name stands for: the name, less the underscore that keeps it
\* from shadowing a Python keyword or builtin.
StandsFor(c) ==
    CASE c = "del_" -> "del"
      [] c = "input_" -> "input"
      [] c = "map_" -> "map"
      [] c = "object_" -> "object"
      [] OTHER -> c

(* ------------------------------ claims ---------------------------------- *)

\* C1: once the module is loaded, every tag class has as its tag the HTML tag
\* its name stands for, and no two tag classes have the same tag.
C1_TagOneToOne ==
    Loaded =>
        \A c \in TagClasses :
            /\ TagOf(c) = StandsFor(c)
            /\ TagOf(c) \in HTMLElements
            /\ \A d \in TagClasses : d # c => TagOf(d) # TagOf(c)

\* C2: constructing any tag class with a global attribute as a keyword assigns
\* the value to that property of the wrapped node.
C2_GlobalAttributesAssigned ==
    (Built /\ inst.cls \in TagClasses) =>
        \A g \in Range(GLOBAL_ATTRIBUTES) \cap DOMAIN inst.kw :
            Holds(Node(inst).props, g, inst.kw[g])

\* C3: constructing the class of a tag listed in CUSTOM_ATTRIBUTES with one of
\* the tag's attribute names as a keyword assigns the value to that property
\* of the wrapped node.
C3_CustomAttributesAssigned ==
    (Built /\ inst.cls \in TagClasses /\ TagOf(inst.cls) \in DOMAIN CUSTOM_ATTRIBUTES) =>
        \A n \in Range(CUSTOM_ATTRIBUTES[TagOf(inst.cls)]) \cap DOMAIN inst.kw :
            Holds(Node(inst).props, n, inst.kw[n])

\* C4: a class whose constructor documentation _add_js_properties generated
\* accepts content (a string, an element, a list of elements), and the node
\* holds it after construction: the string as html, the elements as children.
C4_DocumentedContentHeld ==
    (Built /\ init_doc[Algo] # NoDoc /\ "content" \in DOMAIN inst.kw) =>
        CASE ContentArg.type = "str" -> Node(inst).html = << ContentArg >>
          [] ContentArg.type = "Element" -> Node(inst).children = << ContentArg.repr >>
          [] ContentArg.type = "list" -> Node(inst).children = ContentArg.items
          [] OTHER -> TRUE

\* C5: construction calls document.createElement exactly once, first, with the
\* tag of the instance's class, and no later step creates or swaps the node.
C5_OneNodePerInstance ==
    Built =>
        /\ Len(CallsOf("createElement")) = 1
        /\ inst.calls[1].op = "createElement"
        /\ inst.calls[1].key = TagOf(inst.cls)
        /\ Node(inst).created = 1
        /\ Node(inst).tag = TagOf(inst.cls)

C5_Witness ==
    /\ Built
    /\ Len(CallsOf("style")) > 0
    /\ Len(CallsOf("setattr")) > 0
    /\ Len(CallsOf("append")) > 1

\* C6, as stated: with a style dictionary, the node's style holds the given
\* value of every key; with style None or empty, ElementBase.__init__ and
\* TextElementBase.__init__ write no style key.
C6_StyleHeld_AsStated ==
    Built =>
        /\ StyleArg.type = "dict" => \A k \in StyleKeys : Holds(Node(inst).style, k, StyleValue(k))
        /\ ~Truthy(StyleArg) =>
              Positions("style", "ElementBase.__init__")
              \cup Positions("style", "TextElementBase.__init__") = {}

\* The style keys grid.__init__ writes itself, after the caller's style.
GridKeys ==
    IF Algo = "grid"
    THEN {"display", "grid-template-columns"}
         \cup (IF GapArg.type # "NoneType" THEN {"gap"} ELSE {})
    ELSE {}

\* C6, amended: with a style dictionary, the node's style holds the given value
\* of every key, except the keys grid.__init__ writes itself (display,
\* grid-template-columns, and gap when gap is not None); with style None or
\* empty, ElementBase.__init__ and TextElementBase.__init__ write no style key.
C6_StyleHeld ==
    Built =>
        /\ StyleArg.type = "dict" =>
              \A k \in StyleKeys \ GridKeys : Holds(Node(inst).style, k, StyleValue(k))
        /\ ~Truthy(StyleArg) =>
              Positions("style", "ElementBase.__init__")
              \cup Positions("style", "TextElementBase.__init__") = {}

C6_Witness ==
    /\ Built
    /\ Algo = "grid"
    /\ "display" \in StyleKeys /\ "color" \in StyleKeys
    /\ Holds(Node(inst).style, "color", StyleValue("color"))

\* C7: TextElementBase.__init__ takes one of four ways on content: an element
\* is appended once; the items of a list are appended in list order; None
\* changes nothing; any other value becomes the html. html is assigned only
\* in the last case, and nothing is appended there.
C7_ContentDispatch ==
    (Built /\ Algo \in {"TextElementBase", "grid"}) =>
        LET appended == [i \in 1..Len(CallsOf("append")) |-> CallsOf("append")[i].val]
            html == [i \in 1..Len(CallsOf("html")) |-> CallsOf("html")[i].val]
        IN  CASE ContentArg.type = "Element" ->
                    /\ appended = << ContentArg >> /\ html = << >>
                    /\ Node(inst).children = << ContentArg.repr >> /\ Node(inst).html = << >>
              [] ContentArg.type = "list" ->
                    /\ appended = [i \in 1..Len(ContentArg.items) |-> PyElement(ContentArg.items[i])]
                    /\ html = << >>
                    /\ Node(inst).children = ContentArg.items /\ Node(inst).html = << >>
              [] ContentArg.type = "NoneType" ->
                    /\ appended = << >> /\ html = << >>
                    /\ Node(inst).children = << >> /\ Node(inst).html = << >>
              [] OTHER ->
                    /\ appended = << >> /\ html = << ContentArg >>
                    /\ Node(inst).children = << >> /\ Node(inst).html = << ContentArg >>

C7_Witness ==
    /\ Built
    /\ Algo = "TextElementBase"
    /\ ContentArg = PyList(<< "e2", "e1" >>)
    /\ Node(inst).children = << "e2", "e1" >>

\* C8: _init_properties sets every JSProperty of the instance's class that the
\* keywords provide, defined on the class itself or inherited from a base,
\* and nothing else.
C8_InitPropertiesSetsProvided ==
    Built =>
        LET provided == PropNames(classes, inst.cls) \cap DOMAIN inst.kw
            set == CallsOf("setattr")
        IN  /\ \A n \in provided :
                  Holds(Node(inst).props, Lookup(classes, inst.cls, n).val, inst.kw[n])
            /\ \A i \in 1..Len(set) :
                  \E n \in provided :
                     /\ set[i].key = Lookup(classes, inst.cls, n).val
                     /\ set[i].val = inst.kw[n]

\* C9: after grid(layout, content, gap, **kwargs) the style has display "grid"
\* and grid-template-columns layout, whatever the caller's style gives for
\* them (grid writes after the caller's style); grid writes gap iff gap is not
\* None, with the given value; the caller's other style keys keep their values.
C9_GridStyle ==
    (Built /\ Algo = "grid") =>
        LET own == Positions("style", "grid.__init__")
            callers == Positions("style", "ElementBase.__init__")
        IN  /\ Holds(Node(inst).style, "display", PyStr("grid"))
            /\ Holds(Node(inst).style, "grid-template-columns", inst.kw["layout"])
            /\ \A i \in callers, j \in own : i < j
            /\ (\E j \in own : inst.calls[j].key = "gap") <=> GapArg.type # "NoneType"
            /\ GapArg.type # "NoneType" => Holds(Node(inst).style, "gap", GapArg)
            /\ StyleArg.type = "dict" =>
                  \A k \in StyleKeys \ GridKeys : Holds(Node(inst).style, k, StyleValue(k))

C9_Witness ==
    /\ Built
    /\ Algo = "grid"
    /\ GapArg = PyInt("0")
    /\ "display" \in StyleKeys /\ "gap" \in StyleKeys
    /\ Holds(Node(inst).style, "gap", PyInt("0"))

=============================================================================
